---- MODULE Spec2Model ----
(***************************************************************************)
(* The interactive release pipeline of create_release.py as a state        *)
(* machine: the driver under __main__, run_step, the eight step            *)
(* operations, the operator at the prompts, the local files and the        *)
(* release host.                                                           *)
(***************************************************************************)
EXTENDS Integers, Sequences, FiniteSets, TLC

\* ------------------------------------------------------------ values

\* The eight run_step calls of __main__, in program order.
NumSteps == 8

\* The wait_for_user_to_press_enter calls of smoke_test_release.
NumSmokePrompts == 19

StepNames ==
    << "mount share", "copy from share to local", "remove sms lib",
       "zip script generator", "create release",
       "upload script generator to release", "smoke test release",
       "If smoke test has failed, delete release" >>

\* Python values: None, a str (a sequence of characters), a name not yet bound.
None == [kind |-> "None", val |-> <<>>]
Unbound == [kind |-> "unbound", val |-> <<>>]
Str(s) == [kind |-> "str", val |-> s]

\* An optional integer (asset_id).
NoneInt == [some |-> FALSE, val |-> 0]
SomeInt(n) == [some |-> TRUE, val |-> n]

DigitChars == << "0", "1", "2", "3", "4", "5", "6", "7", "8", "9" >>

\* str(n) of a non-negative integer: its decimal digits.
RECURSIVE ToStr(_)
ToStr(n) == IF n < 10 THEN << DigitChars[n + 1] >>
            ELSE ToStr(n \div 10) \o << DigitChars[(n % 10) + 1] >>

\* c.lower() on the characters the operator types here.
Lower(c) == CASE c = "Y" -> "y"
              [] c = "N" -> "n"
              [] OTHER -> c

\* What input() may return at a (Y/N) prompt: every string over Chars of at
\* most MaxResponseLen characters, the empty one included.
Chars == {"y", "Y", "n"}
MaxResponseLen == 2
Responses == UNION { [1..n -> Chars] : n \in 0..MaxResponseLen }

\* input(...)[0] raises IndexError on the empty string.
RaisesIndexError(resp) == Len(resp) = 0

user_responds_yes_anywhere(resp) == \E i \in 1..Len(resp) : Lower(resp[i]) = "y"
\* user_responds_yes: input(...)[0].lower() == "y" (of a non-empty response).
user_responds_yes(resp) == Lower(resp[1]) = "y"

\* 200 <= response.status_code < 300
IsSuccess(status) == 200 <= status /\ status < 300

\* The release host: identifiers it hands out and statuses it answers with.
ReleaseIds == {123, 987}
AssetIds == {55, 56, 57}
ServerOk == {200, 201, 299}
ServerFail == {300, 404, 422}
ZipName == "script_generator.zip"
OtherName == "notes.txt"

\* What the operator may type at "Please input release id >> ".
TypedIds == { ToStr(r) : r \in ReleaseIds } \cup { <<>> }

\* Exceptions in flight.
NoExc == [kind |-> "none", message |-> << "", 0 >>]
StepException(text, status) == [kind |-> "StepException", message |-> << text, status >>]
OtherException(kind) == [kind |-> kind, message |-> << "", 0 >>]

\* A response of the release host.
NoResponse == [status |-> 0, body |-> "none", id |-> 0, list |-> {}]
Response(status, body, id, list) == [status |-> status, body |-> body, id |-> id, list |-> list]

\* A request as sent: method, URL pattern, the identifier formatted into the URL,
\* and whether it carries the Authorization header.
Request(method, target, id, auth) == [method |-> method, target |-> target, id |-> id, auth |-> auth]

\* Directory trees: the share's script_generator, the local copy, the archive.
Absent == [exists |-> FALSE, entries |-> {}]
Tree(entries) == [exists |-> TRUE, entries |-> entries]
FullTree == Tree({"plugins", "prefs", "smslib", "app"})
NoPrefsTree == Tree({"plugins", "app"})
StaleTree == Tree({"plugins", "prefs", "smslib", "stale"})
OldArchive == Tree({"archived"})

\* sms_lib_dir once the preferences plugin was found.
SmsLibPath == Str(<< "s", "m", "s", "l", "i", "b" >>)

\* resp after the response was consumed.
NoInput == << "<none>" >>

\* ------------------------------------------------------------- state

VARIABLES
    pc,           \* position of the single thread of control
    step,         \* which run_step call of __main__ is current (1..8)
    resp,         \* what input() returned at a (Y/N) prompt, until it is examined
    release_id,   \* __main__'s release_id
    rid,          \* release_id inside upload_script_generator_asset_step / remove_release
    asset_id,     \* asset_id inside upload_script_generator_asset_step
    sms_lib_dir,  \* sms_lib_dir inside remove_sms_lib
    smokeIdx,     \* how many smoke-test prompts were acknowledged
    retval,       \* the value a step's operation returned
    exc,          \* the exception in flight
    response,     \* the release host's response, until it is examined
    invoked,      \* per step: how often its operation was invoked
    prompted,     \* per step: how often its confirmation prompt was shown
    result,       \* per step: what run_step returned
    diagnostics,  \* what the top-level handler printed
    requests,     \* every request sent to the release host, in order
    typed,        \* every identifier typed at "Please input release id >> "
    created,      \* the id the release host gave to the release created in this run
    releases,     \* release host: the releases that exist
    assets,       \* release host: the assets that exist, [rel, id, name]
    drive,        \* "unmounted" or "mounted": the drive letter
    share,        \* script_generator on the share
    local,        \* the local script_generator directory
    zip           \* script_generator.zip

vars ==
    << pc, step, resp, release_id, rid, asset_id, sms_lib_dir, smokeIdx, retval,
       exc, response, invoked, prompted, result, diagnostics, requests, typed,
       created, releases, assets, drive, share, local, zip >>

driverVars == << step, release_id, result >>
localVars == << rid, asset_id, sms_lib_dir, smokeIdx >>
remoteVars == << created, releases, assets, requests, response >>
fsVars == << drive, share, local, zip >>

Steps == 1..NumSteps

\* The release host as a run may find it: empty, or holding release 123 with no
\* asset, with the archive already uploaded, or with an unrelated asset.
InitRemote ==
    { [releases |-> {}, assets |-> {}],
      [releases |-> {123}, assets |-> {}],
      [releases |-> {123}, assets |-> {[rel |-> 123, id |-> 55, name |-> ZipName]}],
      [releases |-> {123}, assets |-> {[rel |-> 123, id |-> 56, name |-> OtherName]}] }

Init ==
    /\ pc = "ask_step"
    /\ step = 1
    /\ resp = NoInput
    /\ release_id = Unbound
    /\ rid = None
    /\ asset_id = NoneInt
    /\ sms_lib_dir = None
    /\ smokeIdx = 0
    /\ retval = None
    /\ exc = NoExc
    /\ response = NoResponse
    /\ invoked = [s \in Steps |-> 0]
    /\ prompted = [s \in Steps |-> 0]
    /\ result = [s \in Steps |-> Unbound]
    /\ diagnostics = <<>>
    /\ requests = <<>>
    /\ typed = <<>>
    /\ created = NoneInt
    /\ \E r \in InitRemote : releases = r.releases /\ assets = r.assets
    /\ drive \in {"unmounted", "mounted"}
    /\ share \in {FullTree, NoPrefsTree, Absent}
    /\ local \in {Absent, StaleTree}
    /\ zip \in {Absent, OldArchive}

\* --------------------------------------------------- control transfer

\* raise e inside a step's operation or inside run_step.
Raise(e) == /\ exc' = e
            /\ pc' = "unwind_run_step"

\* The operation returns v to run_step.
OpReturn(v) == /\ retval' = v
               /\ pc' = "op_return"

OpEntrySwapped(s) ==
    CASE s = 1 -> "mount"
      [] s = 2 -> "copy_rmtree"
      [] s = 3 -> "sms_listdir"
      [] s = 4 -> "zip_remove"
      [] s = 5 -> "upload_entry"
      [] s = 6 -> "create_send"
      [] s = 7 -> "smoke"
      [] s = 8 -> "rollback_entry"

\* Where step_lambda() starts, per step.
OpEntry(s) ==
    CASE s = 1 -> "mount"
      [] s = 2 -> "copy_rmtree"
      [] s = 3 -> "sms_listdir"
      [] s = 4 -> "zip_remove"
      [] s = 5 -> "create_send"
      [] s = 6 -> "upload_entry"
      [] s = 7 -> "smoke"
      [] s = 8 -> "rollback_entry"

\* ------------------------------------------------------------ run_step

\* run_step calls user_responds_yes: the prompt is shown and input() returns.
AskStep ==
    /\ pc = "ask_step"
    /\ \E r \in Responses : resp' = r
    /\ prompted' = [prompted EXCEPT ![step] = @ + 1]
    /\ pc' = "decide_step"
    /\ UNCHANGED << driverVars, localVars, remoteVars, fsVars, retval, exc,
                    invoked, diagnostics, typed >>

run_step_result_none(v) == None
\* return step_lambda(): run_step hands on what the operation returned.
run_step_result(v) == v

run_step_wrap(e) == StepException("run_step failed", 0)
\* run_step has no handler: an exception leaves it as it was raised.
run_step_propagate(e) == e

\* if user_responds_yes(...): print(...); return step_lambda()  -- else fall through.
DecideStep ==
    /\ pc = "decide_step"
    /\ resp' = NoInput
    /\ IF RaisesIndexError(resp)
         THEN /\ Raise(OtherException("IndexError"))
              /\ UNCHANGED << invoked, result >>
         ELSE IF user_responds_yes(resp)
           THEN /\ invoked' = [invoked EXCEPT ![step] = @ + 1]
                /\ pc' = OpEntry(step)
                /\ UNCHANGED << exc, result >>
           ELSE /\ result' = [result EXCEPT ![step] = None]
                /\ pc' = "main_next"
                /\ UNCHANGED << exc, invoked >>
    /\ UNCHANGED << step, release_id, localVars, remoteVars, fsVars, retval,
                    prompted, diagnostics, typed >>

\* The operation returned: run_step returns its value.
RunStepReturn ==
    /\ pc = "op_return"
    /\ result' = [result EXCEPT ![step] = run_step_result(retval)]
    /\ pc' = "main_next"
    /\ UNCHANGED << step, release_id, resp, localVars, remoteVars, fsVars, retval,
                    exc, invoked, prompted, diagnostics, typed >>

RunStepSwallows ==
    /\ pc = "unwind_run_step"
    /\ exc' = NoExc
    /\ result' = [result EXCEPT ![step] = None]
    /\ pc' = "main_next"
    /\ UNCHANGED << step, release_id, resp, localVars, remoteVars, fsVars, retval,
                    invoked, prompted, diagnostics, typed >>

\* An exception passes through run_step's frame.
RunStepPropagate ==
    /\ pc = "unwind_run_step"
    /\ exc' = run_step_propagate(exc)
    /\ pc' = "unwind_main"
    /\ UNCHANGED << driverVars, resp, localVars, remoteVars, fsVars, retval,
                    invoked, prompted, diagnostics, typed >>

\* -------------------------------------------------------------- __main__

\* Only the fifth call's result is assigned: release_id = run_step("create release", ...).
AssignsReleaseId(s) == s = 5

\* Back in __main__ after a run_step call: bind its result, go to the next call.
MainNext ==
    /\ pc = "main_next"
    /\ release_id' = IF AssignsReleaseId(step) THEN result[step] ELSE release_id
    /\ IF step < NumSteps
         THEN step' = step + 1 /\ pc' = "ask_step"
         ELSE step' = step /\ pc' = "done"
    /\ UNCHANGED << result, resp, localVars, remoteVars, fsVars, retval, exc,
                    invoked, prompted, diagnostics, typed >>

\* except StepException as e
MainExceptCatches(e) == e.kind = "StepException"

MainExceptRollsBack ==
    /\ pc = "unwind_main"
    /\ IF MainExceptCatches(exc)
         THEN /\ diagnostics' = Append(diagnostics, exc.message)
              /\ pc' = "halted"
              /\ IF release_id.kind = "str"
                   THEN /\ requests' = Append(requests,
                                Request("DELETE", "release", release_id.val, TRUE))
                        /\ releases' = { r \in releases : ToStr(r) # release_id.val }
                        /\ assets' = { a \in assets : ToStr(a.rel) # release_id.val }
                   ELSE UNCHANGED << requests, releases, assets >>
         ELSE /\ pc' = "crashed"
              /\ UNCHANGED << diagnostics, requests, releases, assets >>
    /\ UNCHANGED << driverVars, resp, localVars, created, response, fsVars, retval,
                    exc, invoked, prompted, typed >>

\* The try block of __main__ is left by an exception.
MainExcept ==
    /\ pc = "unwind_main"
    /\ IF MainExceptCatches(exc)
         THEN /\ diagnostics' = Append(diagnostics, exc.message)
              /\ pc' = "halted"
         ELSE /\ diagnostics' = diagnostics
              /\ pc' = "crashed"
    /\ UNCHANGED << driverVars, resp, localVars, remoteVars, fsVars, retval, exc,
                    invoked, prompted, typed >>

\* ------------------------------------------------------------ mount_share

\* os.path.isdir(f"{drive_to_mount}\\script_generator") once the drive is mounted.
SourceIsDir == drive = "mounted" /\ share.exists

\* net use, then the isdir check. net use can succeed only on a free drive
\* letter and can always fail (no access to the share).
MountShare ==
    /\ pc = "mount"
    /\ \/ /\ Raise(StepException("Failed to mount", 0))
          /\ UNCHANGED << drive, retval >>
       \/ /\ drive = "unmounted"
          /\ drive' = "mounted"
          /\ IF share.exists
               THEN OpReturn(None) /\ UNCHANGED exc
               ELSE Raise(StepException("is not a directory", 0)) /\ UNCHANGED retval
    /\ UNCHANGED << driverVars, resp, localVars, remoteVars, share, local, zip,
                    invoked, prompted, diagnostics, typed >>

\* --------------------------------------------------------- copy_from_share

\* shutil.rmtree(destination): FileNotFoundError is passed over; another OSError
\* leaves the directory (whole, or partly deleted) and asks the operator.
CopyRmtree ==
    /\ pc = "copy_rmtree"
    /\ IF ~local.exists
         THEN /\ pc' = "copy_copytree"
              /\ local' = local
         ELSE \/ /\ local' = Absent
                 /\ pc' = "copy_copytree"
              \/ /\ local' \in {local, Tree(local.entries \ {"stale"})}
                 /\ pc' = "copy_wait"
    /\ UNCHANGED << driverVars, resp, localVars, remoteVars, drive, share, zip,
                    retval, exc, invoked, prompted, diagnostics, typed >>

\* wait_for_user_to_press_enter("Failed to delete ..."): the operator presses
\* enter, having deleted the directory or not.
CopyWait ==
    /\ pc = "copy_wait"
    /\ local' \in {local, Absent}
    /\ pc' = "copy_copytree"
    /\ UNCHANGED << driverVars, resp, localVars, remoteVars, drive, share, zip,
                    retval, exc, invoked, prompted, diagnostics, typed >>

CopyCopytreeMerges ==
    /\ pc = "copy_copytree"
    /\ IF ~SourceIsDir
         THEN /\ Raise(StepException("Failed to copy tree", 0))
              /\ UNCHANGED << local, retval >>
         ELSE /\ local' = Tree(local.entries \cup share.entries)
              /\ OpReturn(None)
              /\ UNCHANGED exc
    /\ UNCHANGED << driverVars, resp, localVars, remoteVars, drive, share, zip,
                    invoked, prompted, diagnostics, typed >>

\* shutil.copytree(source, destination): fails when the source is missing, when
\* the destination exists, or part-way through; every failure is an OSError or
\* shutil.Error, re-raised as StepException.
CopyCopytree ==
    /\ pc = "copy_copytree"
    /\ IF ~SourceIsDir \/ local.exists
         THEN /\ Raise(StepException("Failed to copy tree", 0))
              /\ UNCHANGED << local, retval >>
         ELSE \/ /\ local' = Tree(share.entries)
                 /\ OpReturn(None)
                 /\ UNCHANGED exc
              \/ /\ local' = Tree({})
                 /\ Raise(StepException("Failed to copy tree", 0))
                 /\ UNCHANGED retval
    /\ UNCHANGED << driverVars, resp, localVars, remoteVars, drive, share, zip,
                    invoked, prompted, diagnostics, typed >>

\* ---------------------------------------------------------- remove_sms_lib

\* os.listdir(plugins_dir) and the for/else over it: FileNotFoundError when
\* script_generator/plugins is missing (not handled anywhere in remove_sms_lib).
SmsListdir ==
    /\ pc = "sms_listdir"
    /\ IF ~(local.exists /\ "plugins" \in local.entries)
         THEN /\ Raise(OtherException("FileNotFoundError"))
              /\ UNCHANGED sms_lib_dir
         ELSE IF "prefs" \in local.entries
           THEN /\ sms_lib_dir' = SmsLibPath
                /\ pc' = "sms_wait_usage"
                /\ UNCHANGED exc
           ELSE /\ sms_lib_dir' = None
                /\ pc' = "sms_wait_notfound"
                /\ UNCHANGED exc
    /\ UNCHANGED << driverVars, resp, rid, asset_id, smokeIdx, remoteVars, fsVars,
                    retval, invoked, prompted, diagnostics, typed >>

\* wait_for_user_to_press_enter("Could not find preferences plugin ...")
SmsWaitNotFound ==
    /\ pc = "sms_wait_notfound"
    /\ pc' = "sms_wait_usage"
    /\ UNCHANGED << driverVars, resp, localVars, remoteVars, fsVars, retval, exc,
                    invoked, prompted, diagnostics, typed >>

\* wait_for_user_to_press_enter("Please search for usages of smslib ...")
SmsWaitUsage ==
    /\ pc = "sms_wait_usage"
    /\ pc' = "sms_rmtree"
    /\ UNCHANGED << driverVars, resp, localVars, remoteVars, fsVars, retval, exc,
                    invoked, prompted, diagnostics, typed >>

\* if sms_lib_dir is not None: shutil.rmtree(sms_lib_dir); FileNotFoundError and
\* OSError lead to the manual-removal prompt.
SmsRmtree ==
    /\ pc = "sms_rmtree"
    /\ IF sms_lib_dir = None
         THEN OpReturn(None) /\ UNCHANGED local
         ELSE IF "smslib" \notin local.entries
           THEN /\ pc' = "sms_wait_manual"
                /\ UNCHANGED << local, retval >>
           ELSE \/ /\ local' = Tree(local.entries \ {"smslib"})
                   /\ OpReturn(None)
                \/ /\ pc' = "sms_wait_manual"
                   /\ UNCHANGED << local, retval >>
    /\ UNCHANGED << driverVars, resp, localVars, remoteVars, drive, share, zip,
                    exc, invoked, prompted, diagnostics, typed >>

\* wait_for_user_to_press_enter("Could not remove ... Please do so manually.")
SmsWaitManual ==
    /\ pc = "sms_wait_manual"
    /\ local' \in {local, Tree(local.entries \ {"smslib"})}
    /\ OpReturn(None)
    /\ UNCHANGED << driverVars, resp, localVars, remoteVars, drive, share, zip,
                    exc, invoked, prompted, diagnostics, typed >>

\* ---------------------------------------------------------- zip_script_gen

ZipRemoveKeeps ==
    /\ pc = "zip_remove"
    /\ pc' = "zip_make"
    /\ UNCHANGED << driverVars, resp, localVars, remoteVars, fsVars, retval, exc,
                    invoked, prompted, diagnostics, typed >>

\* os.remove("script_generator.zip"): FileNotFoundError is passed over; another
\* OSError (the file is in use) is re-raised as StepException.
ZipRemove ==
    /\ pc = "zip_remove"
    /\ IF ~zip.exists
         THEN /\ pc' = "zip_make"
              /\ UNCHANGED << zip, exc >>
         ELSE \/ /\ zip' = Absent
                 /\ pc' = "zip_make"
                 /\ UNCHANGED exc
              \/ /\ Raise(StepException("Failed to remove script_generator.zip and make new zip archive", 0))
                 /\ UNCHANGED zip
    /\ UNCHANGED << driverVars, resp, localVars, remoteVars, drive, share, local,
                    retval, invoked, prompted, diagnostics, typed >>

\* shutil.make_archive("script_generator", "zip", "script_generator"): an OSError
\* when the directory is missing or the write fails, re-raised as StepException.
ZipMake ==
    /\ pc = "zip_make"
    /\ IF ~local.exists
         THEN /\ Raise(StepException("Failed to remove script_generator.zip and make new zip archive", 0))
              /\ UNCHANGED << zip, retval >>
         ELSE \/ /\ zip' = Tree(local.entries)
                 /\ OpReturn(None)
                 /\ UNCHANGED exc
              \/ /\ zip' \in {Absent, Tree({})}
                 /\ Raise(StepException("Failed to remove script_generator.zip and make new zip archive", 0))
                 /\ UNCHANGED retval
    /\ UNCHANGED << driverVars, resp, localVars, remoteVars, drive, share, local,
                    invoked, prompted, diagnostics, typed >>

\* ------------------------------------------------------- the release host

\* f"{release_id}": a str as it is, None as the text None.
Format(v) == IF v.kind = "str" THEN v.val ELSE << "N", "o", "n", "e" >>

\* The releases a URL segment names.
ReleaseNamed(s) == { r \in releases : ToStr(r) = s }

\* The assets a URL segment names.
AssetNamed(s) == { a \in assets : ToStr(a.id) = s }

\* requests.post(api_url, headers={"Authorization": ...}, json={...})
create_release_request == Request("POST", "releases", <<>>, TRUE)

\* requests.get(f"{api_url}/{release_id}/assets") -- no headers
list_assets_request(id) == Request("GET", "release_assets", Format(id), FALSE)

\* requests.delete(f"{api_url}/assets/{asset_id}", headers={"Authorization": ...})
delete_asset_request(id) == Request("DELETE", "asset", ToStr(id.val), TRUE)

\* requests.post(f"{api_url}/{release_id}/assets?name=script_generator.zip", ...)
upload_asset_request(id) == Request("POST", "upload_asset", Format(id), TRUE)

\* requests.delete(f"{api_url}/{release_id}", headers={"Authorization": ...})
delete_release_request(id) == Request("DELETE", "release", Format(id), TRUE)

\* requests raising instead of returning (no connection).
NetworkError == Raise(OtherException("ConnectionError"))

\* ------------------------------------------------------------ create_release

\* The POST of create_release. The host creates the release and answers 2xx with
\* its id, or creates nothing and answers otherwise.
CreateSend ==
    /\ pc = "create_send"
    /\ requests' = Append(requests, create_release_request)
    /\ \/ /\ NetworkError
          /\ UNCHANGED << response, releases, created >>
       \/ /\ \E s \in ServerOk, X \in ReleaseIds \ releases :
                /\ releases' = releases \cup {X}
                /\ created' = SomeInt(X)
                /\ response' = Response(s, "json_id", X, {})
          /\ pc' = "create_handle"
          /\ UNCHANGED exc
       \/ /\ \E s \in ServerFail : response' = Response(s, "json_error", 0, {})
          /\ pc' = "create_handle"
          /\ UNCHANGED << releases, created, exc >>
    /\ UNCHANGED << driverVars, resp, localVars, assets, fsVars, retval, invoked,
                    prompted, diagnostics, typed >>

create_release_result_tag(r) == Str(<< "b", "a", "s", "e" >>)
\* release_id = str(response.json()["id"]); return release_id
create_release_result(r) == Str(ToStr(r.id))

\* if 200 <= response.status_code < 300: ... return release_id / else: raise
CreateHandle ==
    /\ pc = "create_handle"
    /\ response' = NoResponse
    /\ IF IsSuccess(response.status)
         THEN /\ OpReturn(create_release_result(response))
              /\ UNCHANGED exc
         ELSE /\ Raise(StepException("Failed to create release, github response:", response.status))
              /\ UNCHANGED retval
    /\ UNCHANGED << driverVars, resp, localVars, created, releases, assets,
                    requests, fsVars, invoked, prompted, diagnostics, typed >>

\* ------------------------------------- upload_script_generator_asset_step

NeedsInputInverted(id) == id # None
\* if release_id is None
NeedsInput(id) == id = None

UploadEntryRetains ==
    /\ pc = "upload_entry"
    /\ IF NeedsInput(release_id)
         THEN \E t \in TypedIds : rid' = Str(t) /\ typed' = Append(typed, t)
         ELSE rid' = release_id /\ typed' = typed
    /\ release_id' = rid'
    /\ pc' = "upload_list_send"
    /\ UNCHANGED << step, result, resp, asset_id, sms_lib_dir, smokeIdx, remoteVars,
                    fsVars, retval, exc, invoked, prompted, diagnostics >>

\* The parameter release_id is bound to __main__'s release_id; when that is None
\* the operator is asked: release_id = input("Please input release id >> ").
UploadEntry ==
    /\ pc = "upload_entry"
    /\ IF NeedsInput(release_id)
         THEN \E t \in TypedIds : rid' = Str(t) /\ typed' = Append(typed, t)
         ELSE rid' = release_id /\ typed' = typed
    /\ pc' = "upload_list_send"
    /\ UNCHANGED << driverVars, resp, asset_id, sms_lib_dir, smokeIdx, remoteVars,
                    fsVars, retval, exc, invoked, prompted, diagnostics >>

\* The asset list the host returns for release r.
AssetList(r) == { [id |-> a.id, name |-> a.name] : a \in { b \in assets : b.rel = r } }

\* The GET of the asset list. 2xx with the list needs the release to exist;
\* any other status comes with an error object or with no JSON at all.
UploadListSend ==
    /\ pc = "upload_list_send"
    /\ requests' = Append(requests, list_assets_request(rid))
    /\ \/ /\ NetworkError
          /\ UNCHANGED response
       \/ /\ \E s \in ServerOk, r \in ReleaseNamed(Format(rid)) :
                response' = Response(s, "json_list", 0, AssetList(r))
          /\ pc' = "upload_list_handle"
          /\ UNCHANGED exc
       \/ /\ \E s \in ServerFail, b \in {"json_error", "not_json"} :
                response' = Response(s, b, 0, {})
          /\ pc' = "upload_list_handle"
          /\ UNCHANGED exc
    /\ UNCHANGED << driverVars, resp, localVars, created, releases, assets, fsVars,
                    retval, invoked, prompted, diagnostics, typed >>

\* for asset in ...: if asset["name"] == "script_generator.zip": asset_id = asset["id"]; break
FindAsset(list) ==
    IF \E a \in list : a.name = ZipName
      THEN SomeInt((CHOOSE a \in list : a.name = ZipName).id)
      ELSE NoneInt

\* check_assets_response.json() and the loop over it; the status is not looked
\* at. A body that is no JSON raises in .json(); an error object is a dict, whose
\* keys are str, so asset["name"] raises TypeError.
UploadListHandle ==
    /\ pc = "upload_list_handle"
    /\ response' = NoResponse
    /\ CASE response.body = "not_json" ->
              Raise(OtherException("JSONDecodeError")) /\ UNCHANGED asset_id
         [] response.body = "json_error" ->
              Raise(OtherException("TypeError")) /\ UNCHANGED asset_id
         [] OTHER ->
              /\ asset_id' = FindAsset(response.list)
              /\ pc' = IF asset_id'.some THEN "upload_ask" ELSE "upload_post_send"
              /\ UNCHANGED exc
    /\ UNCHANGED << driverVars, resp, rid, sms_lib_dir, smokeIdx, created, releases,
                    assets, requests, fsVars, retval, invoked, prompted,
                    diagnostics, typed >>

\* user_responds_yes("script_generator.zip already exists. ..."): input() returns.
UploadAsk ==
    /\ pc = "upload_ask"
    /\ \E r \in Responses : resp' = r
    /\ pc' = "upload_decide"
    /\ UNCHANGED << driverVars, localVars, remoteVars, fsVars, retval, exc,
                    invoked, prompted, diagnostics, typed >>

UploadDecideReasks ==
    /\ pc = "upload_decide"
    /\ resp' = NoInput
    /\ IF RaisesIndexError(resp)
         THEN Raise(OtherException("IndexError")) /\ UNCHANGED retval
         ELSE IF user_responds_yes(resp)
           THEN pc' = "upload_delete_send" /\ UNCHANGED << exc, retval >>
           ELSE pc' = "upload_ask" /\ UNCHANGED << exc, retval >>
    /\ UNCHANGED << driverVars, localVars, remoteVars, fsVars, invoked, prompted,
                    diagnostics, typed >>

\* if user_responds_yes(...): delete, then upload -- else the step ends.
UploadDecide ==
    /\ pc = "upload_decide"
    /\ resp' = NoInput
    /\ IF RaisesIndexError(resp)
         THEN Raise(OtherException("IndexError")) /\ UNCHANGED retval
         ELSE IF user_responds_yes(resp)
           THEN pc' = "upload_delete_send" /\ UNCHANGED << exc, retval >>
           ELSE OpReturn(None) /\ UNCHANGED exc
    /\ UNCHANGED << driverVars, localVars, remoteVars, fsVars, invoked, prompted,
                    diagnostics, typed >>

\* The DELETE of the old asset: 2xx when the host deleted it, otherwise not.
UploadDeleteSend ==
    /\ pc = "upload_delete_send"
    /\ requests' = Append(requests, delete_asset_request(asset_id))
    /\ \/ /\ NetworkError
          /\ UNCHANGED << response, assets >>
       \/ /\ \E s \in ServerOk, a \in AssetNamed(ToStr(asset_id.val)) :
                /\ assets' = assets \ {a}
                /\ response' = Response(s, "none", 0, {})
          /\ pc' = "upload_delete_handle"
          /\ UNCHANGED exc
       \/ /\ \E s \in ServerFail : response' = Response(s, "json_error", 0, {})
          /\ pc' = "upload_delete_handle"
          /\ UNCHANGED << assets, exc >>
    /\ UNCHANGED << driverVars, resp, localVars, created, releases, fsVars, retval,
                    invoked, prompted, diagnostics, typed >>

\* if 200 <= delete_asset_response.status_code < 300: print(...) else: print(...);
\* then _upload_script_generator_asset(...) in either case: nothing is raised.
UploadDeleteHandle ==
    /\ pc = "upload_delete_handle"
    /\ response' = NoResponse
    /\ pc' = "upload_post_send"
    /\ UNCHANGED << driverVars, resp, localVars, created, releases, assets,
                    requests, fsVars, retval, exc, invoked, prompted, diagnostics,
                    typed >>

\* _upload_script_generator_asset: open("script_generator.zip", "rb") is
\* evaluated first and raises FileNotFoundError when there is no archive; then the
\* POST. The host stores the asset and answers 2xx only when the release exists
\* and holds no asset of that name.
UploadPostSend ==
    /\ pc = "upload_post_send"
    /\ IF ~zip.exists
         THEN /\ Raise(OtherException("FileNotFoundError"))
              /\ UNCHANGED << requests, response, assets >>
         ELSE /\ requests' = Append(requests, upload_asset_request(rid))
              /\ \/ /\ NetworkError
                    /\ UNCHANGED << response, assets >>
                 \/ /\ \E s \in ServerOk, r \in ReleaseNamed(Format(rid)) :
                          /\ ~\E a \in assets : a.rel = r /\ a.name = ZipName
                          /\ \E i \in AssetIds \ { a.id : a \in assets } :
                                /\ assets' = assets \cup {[rel |-> r, id |-> i, name |-> ZipName]}
                                /\ response' = Response(s, "json_id", i, {})
                    /\ pc' = "upload_post_handle"
                    /\ UNCHANGED exc
                 \/ /\ \E s \in ServerFail : response' = Response(s, "json_error", 0, {})
                    /\ pc' = "upload_post_handle"
                    /\ UNCHANGED << assets, exc >>
    /\ UNCHANGED << driverVars, resp, localVars, created, releases, fsVars, retval,
                    invoked, prompted, diagnostics, typed >>

\* if 200 <= response.status_code < 300: print(...) else: raise StepException(...)
UploadPostHandleRetries ==
    /\ pc = "upload_post_handle"
    /\ response' = NoResponse
    /\ IF IsSuccess(response.status)
         THEN OpReturn(None)
         ELSE pc' = "upload_post_send" /\ retval' = retval
    /\ UNCHANGED << driverVars, resp, localVars, created, releases, assets,
                    requests, fsVars, exc, invoked, prompted, diagnostics, typed >>

UploadPostHandle ==
    /\ pc = "upload_post_handle"
    /\ response' = NoResponse
    /\ IF IsSuccess(response.status)
         THEN OpReturn(None) /\ UNCHANGED exc
         ELSE /\ Raise(StepException("Failed to create release:", response.status))
              /\ UNCHANGED retval
    /\ UNCHANGED << driverVars, resp, localVars, created, releases, assets,
                    requests, fsVars, invoked, prompted, diagnostics, typed >>

\* -------------------------------------------------------- smoke_test_release

\* One wait_for_user_to_press_enter of the smoke test: any input continues.
SmokePrompt ==
    /\ pc = "smoke"
    /\ smokeIdx < NumSmokePrompts
    /\ smokeIdx' = smokeIdx + 1
    /\ IF smokeIdx' = NumSmokePrompts
         THEN OpReturn(None)
         ELSE pc' = pc /\ retval' = retval
    /\ UNCHANGED << driverVars, resp, rid, asset_id, sms_lib_dir, remoteVars,
                    fsVars, exc, invoked, prompted, diagnostics, typed >>

\* ------------------------------------------------------------ remove_release

\* if release_id is None: release_id = input("Please input release id >> ")
RollbackEntry ==
    /\ pc = "rollback_entry"
    /\ IF NeedsInput(release_id)
         THEN \E t \in TypedIds : rid' = Str(t) /\ typed' = Append(typed, t)
         ELSE rid' = release_id /\ typed' = typed
    /\ pc' = "rollback_ask"
    /\ UNCHANGED << driverVars, resp, asset_id, sms_lib_dir, smokeIdx, remoteVars,
                    fsVars, retval, exc, invoked, prompted, diagnostics >>

\* user_responds_yes("Are you sure you want to delete the release"): input() returns.
RollbackAsk ==
    /\ pc = "rollback_ask"
    /\ \E r \in Responses : resp' = r
    /\ pc' = "rollback_decide"
    /\ UNCHANGED << driverVars, localVars, remoteVars, fsVars, retval, exc,
                    invoked, prompted, diagnostics, typed >>

RollbackDecideAlwaysDeletes ==
    /\ pc = "rollback_decide"
    /\ resp' = NoInput
    /\ IF RaisesIndexError(resp)
         THEN Raise(OtherException("IndexError")) /\ UNCHANGED retval
         ELSE pc' = "rollback_delete_send" /\ UNCHANGED << exc, retval >>
    /\ UNCHANGED << driverVars, localVars, remoteVars, fsVars, invoked, prompted,
                    diagnostics, typed >>

\* if user_responds_yes(...): delete -- else: print("Release not deleted")
RollbackDecide ==
    /\ pc = "rollback_decide"
    /\ resp' = NoInput
    /\ IF RaisesIndexError(resp)
         THEN Raise(OtherException("IndexError")) /\ UNCHANGED retval
         ELSE IF user_responds_yes(resp)
           THEN pc' = "rollback_delete_send" /\ UNCHANGED << exc, retval >>
           ELSE OpReturn(None) /\ UNCHANGED exc
    /\ UNCHANGED << driverVars, localVars, remoteVars, fsVars, invoked, prompted,
                    diagnostics, typed >>

\* The DELETE of the release: 2xx when the host deleted it (and its assets),
\* otherwise the release stays.
RollbackDeleteSend ==
    /\ pc = "rollback_delete_send"
    /\ requests' = Append(requests, delete_release_request(rid))
    /\ \/ /\ NetworkError
          /\ UNCHANGED << response, releases, assets >>
       \/ /\ \E s \in ServerOk, r \in ReleaseNamed(Format(rid)) :
                /\ releases' = releases \ {r}
                /\ assets' = { a \in assets : a.rel # r }
                /\ response' = Response(s, "none", 0, {})
          /\ pc' = "rollback_delete_handle"
          /\ UNCHANGED exc
       \/ /\ \E s \in ServerFail : response' = Response(s, "json_error", 0, {})
          /\ pc' = "rollback_delete_handle"
          /\ UNCHANGED << releases, assets, exc >>
    /\ UNCHANGED << driverVars, resp, localVars, created, fsVars, retval, invoked,
                    prompted, diagnostics, typed >>

\* if 200 <= response.status_code < 300: print(...) else: raise StepException(...)
RollbackDeleteHandle ==
    /\ pc = "rollback_delete_handle"
    /\ response' = NoResponse
    /\ IF IsSuccess(response.status)
         THEN OpReturn(None) /\ UNCHANGED exc
         ELSE /\ Raise(StepException("Failed to delete release, github reponse:", response.status))
              /\ UNCHANGED retval
    /\ UNCHANGED << driverVars, resp, localVars, created, releases, assets,
                    requests, fsVars, invoked, prompted, diagnostics, typed >>

\* ------------------------------------------------------- the specification

Next ==
    \/ AskStep
    \/ DecideStep
    \/ RunStepReturn
    \/ RunStepPropagate
    \/ MainNext
    \/ MainExcept
    \/ MountShare
    \/ CopyRmtree
    \/ CopyWait
    \/ CopyCopytree
    \/ SmsListdir
    \/ SmsWaitNotFound
    \/ SmsWaitUsage
    \/ SmsRmtree
    \/ SmsWaitManual
    \/ ZipRemove
    \/ ZipMake
    \/ CreateSend
    \/ CreateHandle
    \/ UploadEntry
    \/ UploadListSend
    \/ UploadListHandle
    \/ UploadAsk
    \/ UploadDecide
    \/ UploadDeleteSend
    \/ UploadDeleteHandle
    \/ UploadPostSend
    \/ UploadPostHandle
    \/ SmokePrompt
    \/ RollbackEntry
    \/ RollbackAsk
    \/ RollbackDecide
    \/ RollbackDeleteSend
    \/ RollbackDeleteHandle

Spec == Init /\ [][Next]_vars

\* The pipeline has ended: completed, halted by the handler, or left by another exception.
Ended == pc \in {"done", "halted", "crashed"}

\* The interpreter keeps executing: every prompt is answered and every
\* collaborator call returns or raises, so a step that can be taken is taken.
FairSpec == Spec /\ WF_vars(Next)

\* -------------------------------------------------------------- properties

Last(q) == q[Len(q)]

\* A non-empty response that does not start with y or Y.
Negative(r) == Len(r) > 0 /\ r[1] \notin {"y", "Y"}

\* A response that starts with y or Y.
Affirmative(r) == Len(r) > 0 /\ r[1] \in {"y", "Y"}

\* Everything outside the program that a step can change, and the prompts shown.
Effects == << requests, releases, assets, created, drive, share, local, zip,
              typed, prompted, invoked >>

\* No step after the current one has been offered or run.
NoLaterStep == \A s \in Steps : s > step => prompted[s] = 0 /\ invoked[s] = 0

\* C1: once a step's operation has raised StepException, no later step is
\* prompted for or executed and nothing more is done: the exception leaves
\* run_step, reaches the handler of __main__, which prints its message as the
\* only diagnostic, and the run has ended (nothing follows the halted state).
\* A failed create release (e.g. 422) therefore never reaches upload, smoke test
\* or rollback.
C1_StepFailureHalts ==
    [][ /\ (exc.kind = "StepException" =>
              /\ pc \in {"unwind_run_step", "unwind_main", "halted"}
              /\ NoLaterStep
              /\ Effects' = Effects
              /\ step' = step
              /\ pc' \in {"unwind_main", "halted"}
              /\ NoLaterStep')
        /\ (pc = "unwind_main" /\ exc.kind = "StepException" =>
              /\ pc' = "halted"
              /\ diagnostics = <<>>
              /\ diagnostics' = << exc.message >>)
        /\ pc # "halted" ]_vars

\* C1 witness: create release was answered 422, the handler printed it, and
\* none of upload, smoke test and rollback was offered.
C1_Witness ==
    /\ pc = "halted"
    /\ step = 5
    /\ diagnostics = << << "Failed to create release, github response:", 422 >> >>
    /\ \A s \in 6..NumSteps : prompted[s] = 0 /\ invoked[s] = 0

\* C2: on a non-empty response that does not start with y or Y, run_step does
\* not invoke the operation, changes nothing besides having prompted, returns
\* None and raises nothing; the driver then goes on to the next step (or ends
\* after the eighth).
C2_NegativeSkips ==
    [][ /\ (pc = "decide_step" /\ Negative(resp) =>
              /\ invoked' = invoked
              /\ result' = [result EXCEPT ![step] = None]
              /\ exc' = NoExc
              /\ pc' = "main_next"
              /\ Effects' = Effects
              /\ diagnostics' = diagnostics)
        /\ (pc = "main_next" =>
              IF step < NumSteps
                THEN pc' = "ask_step" /\ step' = step + 1
                ELSE pc' = "done") ]_vars

\* C2 witness: step 3 was declined (an empty response raises and an affirmative
\* one invokes, so the response was negative); its operation never ran, run_step
\* returned None, and the prompt of step 4 is next.
C2_Witness ==
    /\ pc = "ask_step"
    /\ step = 4
    /\ prompted[3] = 1
    /\ invoked[3] = 0
    /\ result[3] = None
    /\ exc = NoExc

\* C3 (the claim as stated): an empty response to the run_step prompt skips
\* the step: run_step returns None, raises nothing, and the driver continues.
C3_EmptyResponseSkips ==
    [][ pc = "decide_step" /\ resp = <<>> =>
          /\ pc' = "main_next"
          /\ result'[step] = None
          /\ exc' = NoExc ]_vars

\* C4: on a response that starts with y or Y, run_step invokes the operation
\* once (and no operation is ever invoked twice), and when the operation returns,
\* run_step returns that very value: the str of the id the host answered for
\* create release, None for the operations that return nothing.
C4_AffirmativeRunsOnce ==
    [][ /\ (pc = "decide_step" /\ Affirmative(resp) =>
              /\ invoked' = [invoked EXCEPT ![step] = invoked[step] + 1]
              /\ pc' = OpEntry(step))
        /\ (\A s \in Steps : invoked'[s] <= 1)
        /\ (pc = "op_return" =>
              /\ result' = [result EXCEPT ![step] = retval]
              /\ invoked' = invoked
              /\ pc' = "main_next"
              /\ (step = 5 => created.some /\ result'[5] = Str(ToStr(created.val)))
              /\ (step # 5 => result'[step] = None)) ]_vars

\* C4 witness: create release was confirmed, the host answered with id 987, and
\* run_step returned "987" after one invocation.
C4_Witness ==
    /\ pc = "main_next"
    /\ step = 5
    /\ invoked[5] = 1
    /\ created = SomeInt(987)
    /\ result[5] = Str(<< "9", "8", "7" >>)

\* C5: a StepException raised by the operation leaves run_step as the same
\* exception with the same message, and run_step does not return normally: the
\* next position is the handler of __main__, not the code after the call.
C5_PropagatesUnchanged ==
    [][ pc = "unwind_run_step" /\ exc.kind = "StepException" =>
          /\ exc' = exc
          /\ pc' = "unwind_main"
          /\ result' = result ]_vars

\* C5 witness: the StepException of a 404 on delete release has left run_step.
C5_Witness ==
    /\ pc = "unwind_main"
    /\ step = 8
    /\ exc = StepException("Failed to delete release, github reponse:", 404)

\* The requests that address a release by its identifier.
ReleaseTargets == {"release_assets", "upload_asset", "release"}

\* C6: a delete-release request is sent only by the rollback step, after the
\* operator confirmed that step, and a release disappears from the host only
\* then; so when create release succeeded and a later step ends in a
\* StepException, the created release is still on the host when the run has ended.
C6_NoAutomaticRollback ==
    [][ /\ (requests' # requests /\ Last(requests').target = "release" =>
              /\ pc = "rollback_delete_send"
              /\ step = NumSteps
              /\ invoked[NumSteps] = 1)
        /\ (~(releases \subseteq releases') => pc = "rollback_delete_send")
        /\ (pc' = "halted" /\ created.some /\ step > 5 =>
              created.val \in releases') ]_vars

\* C6 witness: the release was created, the upload then failed with a
\* StepException, the run has ended and the release is still there.
C6_Witness ==
    /\ pc = "halted"
    /\ step = 6
    /\ created.some
    /\ created.val \in releases
    /\ \A i \in 1..Len(requests) : requests[i].target # "release"

\* C7: when create release was confirmed and the host answered 2xx with id X,
\* every later request that addresses a release (list assets, upload, delete
\* release) addresses str(X), and the operator is never asked for an identifier.
C7_ReleaseIdThreaded ==
    [][ created.some =>
          /\ typed' = <<>>
          /\ \A i \in 1..Len(requests') :
                requests'[i].target \in ReleaseTargets =>
                    requests'[i].id = ToStr(created.val) ]_vars

\* C7 witness: release 987 was created, the asset was uploaded to 987 and the
\* rollback deleted 987, all without a typed identifier.
C7_Witness ==
    /\ pc = "done"
    /\ created = SomeInt(987)
    /\ typed = <<>>
    /\ \E i, j, k \in 1..Len(requests) :
          /\ requests[i] = list_assets_request(Str(<< "9", "8", "7" >>))
          /\ requests[j] = upload_asset_request(Str(<< "9", "8", "7" >>))
          /\ requests[k] = delete_release_request(Str(<< "9", "8", "7" >>))
          /\ i < j /\ j < k

\* C8: when create release was declined, release_id is None from then on; the
\* upload step and the rollback step, when confirmed, each ask the operator for an
\* identifier and raise nothing there, every request of theirs that addresses a
\* release carries the identifier typed in that step, and no request is ever
\* sent for the text None.
C8_DeclinedCreateAsksForId ==
    [][ /\ (step > 5 /\ result[5] = None => release_id = None)
        /\ (pc \in {"upload_entry", "rollback_entry"} /\ release_id = None =>
              /\ Len(typed') = Len(typed) + 1
              /\ rid' = Str(Last(typed'))
              /\ exc' = NoExc
              /\ pc' \in {"upload_list_send", "rollback_ask"})
        /\ (release_id = None /\ requests' # requests
              /\ Last(requests').target \in ReleaseTargets =>
                  /\ typed # <<>>
                  /\ Last(requests').id = Last(typed))
        /\ (\A i \in 1..Len(requests') :
              requests'[i].target \in ReleaseTargets =>
                  requests'[i].id # Format(None)) ]_vars

\* C8 witness: create release was declined, upload and rollback were confirmed,
\* the operator typed an identifier in each, and the delete-release request for
\* the second one has been sent.
C8_Witness ==
    /\ pc = "rollback_delete_handle"
    /\ result[5] = None
    /\ Len(typed) = 2
    /\ Last(requests) = delete_release_request(Str(typed[2]))
    /\ \E i \in 1..Len(requests) : requests[i] = upload_asset_request(Str(typed[1]))

\* C9 (the claim as stated): with an asset named script_generator.zip on the
\* release, declining the replacement sends no upload and ends the step without
\* error; accepting it sends the upload only once the old asset is gone from the
\* host; with no such asset the upload follows without a question.
C9_DeleteBeforeUpload ==
    [][ /\ (pc = "upload_decide" /\ Negative(resp) =>
              /\ pc' = "op_return"
              /\ requests' = requests
              /\ exc' = NoExc)
        /\ (pc = "upload_post_send" /\ pc' = "upload_post_handle" /\ asset_id.some =>
              AssetNamed(ToStr(asset_id.val)) = {})
        /\ (pc = "upload_list_handle" /\ response.body = "json_list"
              /\ ~(\E a \in response.list : a.name = ZipName) =>
                  pc' = "upload_post_send") ]_vars

\* Where a response of the release host is examined.
HandlePcs ==
    { "create_handle", "upload_list_handle", "upload_delete_handle",
      "upload_post_handle", "rollback_delete_handle" }

\* C10 (the claim as stated): whenever a response of the release host with a
\* status outside 200..299 is examined, a StepException carrying that status is
\* raised; the step does not go on.
C10_Non2xxIsStepFailure ==
    [][ (pc \in HandlePcs /\ ~(200 <= response.status /\ response.status <= 299)) =>
          /\ exc'.kind = "StepException"
          /\ exc'.message[2] = response.status
          /\ pc' = "unwind_run_step" ]_vars

\* What a collaborator's failure looks like when it is not converted: the
\* exception kinds raised by os.listdir and open (FileNotFoundError), by requests
\* (ConnectionError), by response.json() (JSONDecodeError) and by the loop over an
\* error object (TypeError).
UnconvertedKinds == {"FileNotFoundError", "ConnectionError", "JSONDecodeError", "TypeError"}

\* C11 (the claim as stated, for the failures of collaborators): no failure of
\* a collaborator inside a step is ever in flight as anything but a
\* StepException, and no run ends outside the two ways "all eight steps offered"
\* and "the handler printed a diagnostic" because of one.
C11_CollaboratorFailuresConverted ==
    /\ exc.kind \notin UnconvertedKinds
    /\ (pc = "done" => \A s \in Steps : prompted[s] = 1)
    /\ (pc = "halted" => Len(diagnostics) = 1)

\* C12 (the claim as stated): a confirmed step whose preparing step was
\* skipped finds out that its resource is missing and asks the operator or raises
\* a StepException: strip-library and archive without a local copy, upload without
\* an archive file, upload and rollback without a release identifier.
C12_MissingResourceHandled ==
    [][ /\ (pc \in {"sms_listdir", "zip_make"} /\ ~local.exists =>
              exc'.kind = "StepException" /\ local' = local /\ zip' = zip)
        /\ (pc = "upload_post_send" /\ ~zip.exists =>
              exc'.kind = "StepException" /\ requests' = requests)
        /\ (pc \in {"upload_entry", "rollback_entry"} /\ release_id = None =>
              exc' = NoExc /\ Len(typed') = Len(typed) + 1) ]_vars

\* C13 (the claim as stated): every request sent to the release host carries
\* the Authorization header with the operator's token.
C13_EveryRequestAuthenticated ==
    \A i \in 1..Len(requests) : requests[i].auth

\* C14: in the copy step a missing destination is no failure (rmtree's
\* FileNotFoundError is passed over and the copy follows); the step completes
\* only by copying into a destination that does not exist, which then holds
\* exactly the source's contents, so nothing of a previous copy is in it; and
\* when the old directory is still there at the copy (automatic deletion failed
\* and the operator did not delete it), the step ends in a StepException with the
\* directory as it was, not merged.
C14_CopyReplacesDestination ==
    [][ /\ (pc = "copy_rmtree" /\ ~local.exists =>
              pc' = "copy_copytree" /\ exc' = NoExc /\ local' = local)
        /\ (pc = "copy_copytree" /\ pc' = "op_return" =>
              /\ ~local.exists
              /\ SourceIsDir
              /\ local' = Tree(share.entries)
              /\ "stale" \notin local'.entries)
        /\ (pc = "copy_copytree" /\ local.exists =>
              exc'.kind = "StepException" /\ local' = local) ]_vars

\* C14 witness: the source is there, the old directory survived rmtree and the
\* prompt, and the copy step ended in a StepException leaving it untouched.
C14_Witness ==
    /\ pc = "unwind_run_step"
    /\ step = 2
    /\ SourceIsDir
    /\ local = StaleTree
    /\ exc = StepException("Failed to copy tree", 0)

\* C15: in the archive step a missing archive is no failure (os.remove's
\* FileNotFoundError is passed over); the new archive is made only once the old
\* one is gone; and when the step completes, script_generator.zip holds exactly
\* the contents of the local script_generator directory, with nothing of the
\* previous archive in it.
C15_ArchiveReplaced ==
    [][ /\ (pc = "zip_remove" /\ ~zip.exists =>
              pc' = "zip_make" /\ exc' = NoExc /\ zip' = zip)
        /\ (pc = "zip_make" => ~zip.exists)
        /\ (pc = "zip_make" /\ pc' = "op_return" =>
              /\ local.exists
              /\ zip' = Tree(local.entries)
              /\ "archived" \notin zip'.entries) ]_vars

\* C15 witness: the archive step completed on a copied workspace and the
\* archive holds the workspace's tree.
C15_Witness ==
    /\ pc = "op_return"
    /\ step = 4
    /\ invoked[2] = 1
    /\ local = FullTree
    /\ zip = FullTree

\* The positions inside each step's operation.
OpPcs(s) ==
    CASE s = 1 -> {"mount"}
      [] s = 2 -> {"copy_rmtree", "copy_wait", "copy_copytree"}
      [] s = 3 -> {"sms_listdir", "sms_wait_notfound", "sms_wait_usage", "sms_rmtree",
                   "sms_wait_manual"}
      [] s = 4 -> {"zip_remove", "zip_make"}
      [] s = 5 -> {"create_send", "create_handle"}
      [] s = 6 -> {"upload_entry", "upload_list_send", "upload_list_handle",
                   "upload_ask", "upload_decide", "upload_delete_send",
                   "upload_delete_handle", "upload_post_send", "upload_post_handle"}
      [] s = 7 -> {"smoke"}
      [] s = 8 -> {"rollback_entry", "rollback_ask", "rollback_decide",
                   "rollback_delete_send", "rollback_delete_handle"}

AllOpPcs == UNION { OpPcs(s) : s \in Steps }

\* What steps do outside the program, and the identifiers they read.
SideEffects == << requests, releases, assets, created, drive, share, local, zip, typed >>

\* Steps before the current one have been offered, steps after it have not, and
\* control is inside an operation only of the current, confirmed step.
InOrder ==
    /\ \A s \in Steps :
          /\ (s < step => prompted[s] = 1)
          /\ (s > step => prompted[s] = 0 /\ invoked[s] = 0)
          /\ invoked[s] <= prompted[s]
    /\ (pc \in AllOpPcs => pc \in OpPcs(step) /\ invoked[step] = 1)
    /\ (pc = "ask_step" =>
          /\ prompted[step] = 0
          /\ (step > 1 => result[step - 1] # Unbound))

\* C16: the steps are offered in the order of the list; an operation is
\* entered only from its own prompt answered affirmatively; the next prompt is
\* shown only after run_step has returned for the step before it; and every side
\* effect happens inside the operation of the current, confirmed step, so none
\* happens before an earlier step's prompt was answered.
C16_StepsInOrder ==
    [][ /\ InOrder
        /\ InOrder'
        /\ (pc' = "ask_step" => step' = step + 1 /\ pc = "main_next")
        /\ (pc' \in AllOpPcs /\ pc \notin AllOpPcs =>
              pc = "decide_step" /\ Affirmative(resp) /\ step' = step)
        /\ (SideEffects' # SideEffects => pc \in OpPcs(step) /\ invoked[step] = 1) ]_vars

\* C16 witness: create release has run to its end (one request, the release
\* exists) and only now the prompt of the upload step is due.
C16_Witness ==
    /\ pc = "ask_step"
    /\ step = 6
    /\ invoked[5] = 1
    /\ created.some
    /\ Len(requests) = 1
    /\ prompted[6] = 0

\* The requests sent so far to one kind of target.
RequestsTo(target) == { i \in 1..Len(requests) : requests[i].target = target }

\* C17: each step is prompted for at most once and invoked at most once; at
\* most one create-release, one asset-upload and one delete-release request are
\* sent; and once an operation has raised, nothing is prompted, invoked or sent
\* again.
C17_NoRetry ==
    [][ /\ \A s \in Steps : prompted'[s] <= 1 /\ invoked'[s] <= 1
        /\ Cardinality(RequestsTo("releases")') <= 1
        /\ Cardinality(RequestsTo("upload_asset")') <= 1
        /\ Cardinality(RequestsTo("release")') <= 1
        /\ (exc # NoExc =>
              prompted' = prompted /\ invoked' = invoked /\ requests' = requests) ]_vars

\* C17 witness: the upload was refused by the host and the run has halted with
\* that single upload request sent.
C17_Witness ==
    /\ pc = "halted"
    /\ step = 6
    /\ invoked[6] = 1
    /\ exc = StepException("Failed to create release:", 422)
    /\ Cardinality(RequestsTo("upload_asset")) = 1

\* C18: the delete-release request is sent only from the inner confirmation
\* answered affirmatively, which is reached only from the rollback step's own
\* prompt answered affirmatively; a non-empty negative answer to the inner
\* confirmation returns from the step with no request, no exception and the
\* releases untouched, and from there the run goes on to its completed end.
C18_RollbackNeedsTwoAnswers ==
    [][ /\ (pc' = "rollback_entry" =>
              pc = "decide_step" /\ step = 8 /\ Affirmative(resp))
        /\ (pc' = "rollback_delete_send" =>
              pc = "rollback_decide" /\ Affirmative(resp) /\ invoked[8] = 1)
        /\ (RequestsTo("release")' # RequestsTo("release") =>
              pc = "rollback_delete_send")
        /\ (pc = "rollback_decide" /\ Negative(resp) =>
              /\ pc' = "op_return"
              /\ exc' = NoExc
              /\ requests' = requests
              /\ releases' = releases)
        /\ (step = 8 /\ pc \in {"op_return", "main_next"} =>
              /\ pc' = IF pc = "op_return" THEN "main_next" ELSE "done"
              /\ exc' = NoExc
              /\ requests' = requests
              /\ releases' = releases) ]_vars

\* C18 witness: the release was created, rollback was confirmed at the step
\* prompt but declined at the inner confirmation, and the run completed with
\* the release still on the host and no delete-release request sent.
C18_Witness ==
    /\ pc = "done"
    /\ invoked[5] = 1
    /\ invoked[8] = 1
    /\ RequestsTo("release") = {}
    /\ ReleaseNamed(Format(release_id)) # {}
    /\ diagnostics = <<>>

\* C19: the driver's release_id changes only where __main__ binds the result
\* of the create release step; an identifier typed in the upload step goes to
\* that step's own parameter only. With release_id None, the upload step and the
\* rollback step each ask for an identifier, and the delete-release request
\* names the one typed last.
C19_TypedIdNotRetained ==
    [][ /\ (release_id' # release_id =>
              pc = "main_next" /\ step = 5 /\ release_id' = result[5])
        /\ (pc \in {"upload_entry", "rollback_entry"} /\ release_id = None =>
              /\ Len(typed') = Len(typed) + 1
              /\ rid' = Str(Last(typed'))
              /\ release_id' = None)
        /\ (pc = "rollback_entry" /\ release_id = None /\ invoked[6] = 1 =>
              Len(typed') = 2)
        /\ (pc = "rollback_delete_send" /\ release_id = None =>
              Last(requests').id = Last(typed)) ]_vars

\* C19 witness: create release was skipped, the upload went to release 123 as
\* typed, and the delete-release request names 987 as typed the second time.
C19_Witness ==
    /\ release_id = None
    /\ typed = << ToStr(123), ToStr(987) >>
    /\ \E i \in RequestsTo("upload_asset") : requests[i].id = ToStr(123)
    /\ \E i \in RequestsTo("release") : requests[i].id = ToStr(987)

\* The positions of the program in the order control passes through them
\* within one run_step call.
PcOrder ==
    << "ask_step", "decide_step",
       "mount",
       "copy_rmtree", "copy_wait", "copy_copytree",
       "sms_listdir", "sms_wait_notfound", "sms_wait_usage", "sms_rmtree", "sms_wait_manual",
       "zip_remove", "zip_make",
       "create_send", "create_handle",
       "upload_entry", "upload_list_send", "upload_list_handle", "upload_ask",
       "upload_decide", "upload_delete_send", "upload_delete_handle",
       "upload_post_send", "upload_post_handle",
       "smoke",
       "rollback_entry", "rollback_ask", "rollback_decide", "rollback_delete_send",
       "rollback_delete_handle",
       "op_return", "main_next", "unwind_run_step", "unwind_main",
       "done", "halted", "crashed" >>

Pos(p) == CHOOSE i \in 1..Len(PcOrder) : PcOrder[i] = p

\* How far the run has come: the step, then the position inside it, then the
\* smoke test's prompts already acknowledged.
Progress ==
    (step * Len(PcOrder) + Pos(pc)) * (NumSmokePrompts + 1)
      + (IF pc = "smoke" THEN smokeIdx ELSE 0)

MaxProgress == (NumSteps * Len(PcOrder) + Len(PcOrder)) * (NumSmokePrompts + 1)

\* C20: every step of the program moves the run strictly forward through a
\* bounded order of positions (so no prompt is re-asked, no step is repeated
\* and the number of prompts is bounded), and, with every prompt answered and
\* every call returning or raising, every run eventually ends.
C20_Terminates ==
    /\ [][Progress' > Progress /\ Progress' <= MaxProgress]_vars
    /\ <>Ended

\* C20 witness: a run that was offered all eight steps, ran every one of them
\* through all nineteen smoke-test prompts, and has ended.
C20_Witness ==
    /\ pc = "done"
    /\ \A s \in Steps : prompted[s] = 1 /\ invoked[s] = 1
    /\ smokeIdx = NumSmokePrompts

====
